---- MODULE Spec2Model ----
(***************************************************************************)
(* A model of the S3 filesystem adapter (s3-file-connector/src/fs.rs):     *)
(* the inode table, the directory entry sets, the directory handles and    *)
(* the read sessions, with one process per concurrently running kernel     *)
(* callback.  A lock that is held across a program point where another     *)
(* callback can run is read off the holders' program counters.             *)
(*                                                                         *)
(* Strings are sequences of one-character strings, so that prefix          *)
(* stripping and path joining are computed and not assumed.                *)
(***************************************************************************)
EXTENDS Naturals, Sequences, FiniteSets, TLC

\* ------------------------------------------------------------- bounds
NumTasks == 2
MaxInode == 3
MaxHandle == 2
MaxOffset == 1
MaxCapacity == 2

Tasks == 1..NumTasks
\* The callbacks that run directory operations.
DirTasks == {1, 2}

\* -------------------------------------------------- program constants
ROOT_INODE == 1
FILE_INODE == 2
DIR_PERMISSIONS == 493
FILE_PERMISSIONS == 420
BLOCK_SIZE == 4096
DIR_BLKSIZE == 512

\* ------------------------------------------------------------ strings
Slash == "/"
Dot == <<".">>
DotDot == <<".", ".">>
EmptyStr == <<>>

IsPrefix(p, s) == Len(p) <= Len(s) /\ SubSeq(s, 1, Len(p)) = p
StripPrefix(s, n) == SubSeq(s, n + 1, Len(s))
HasSlash(s) == \E i \in DOMAIN s : s[i] = Slash
FirstSlash(s) == CHOOSE i \in DOMAIN s : s[i] = Slash /\ \A j \in 1..(i - 1) : s[j] # Slash
Pop(s) == SubSeq(s, 1, Len(s) - 1)
Range(s) == {s[i] : i \in DOMAIN s}

\* Faulty variant, for comparison: the path is left in the order it was collected.
ReverseNot(s) == s

RECURSIVE Reverse(_)
Reverse(s) == IF s = <<>> THEN <<>> ELSE Append(Reverse(Tail(s)), Head(s))

\* Vec<String>::join("/")
RECURSIVE Join(_)
Join(parts) ==
    IF parts = <<>> THEN <<>>
    ELSE IF Len(parts) = 1 THEN Head(parts)
    ELSE Head(parts) \o <<Slash>> \o Join(Tail(parts))

\* ------------------------------------------------------- finite maps
EmptyMap == [x \in {} |-> 0]
MapInsert(m, k, v) == (k :> v) @@ m
MapRemoveAll(m, ks) == [k \in (DOMAIN m) \ ks |-> m[k]]

\* --------------------------------------------------- the object store
\* The keys a bucket may hold, in the store's (lexicographic) order, and the
\* common prefixes they can roll up to.
KeyOrder == << <<"a">>, <<"a", "/", "b">> >>
PrefixOrder == << <<"a", "/">> >>
AllKeys == Range(KeyOrder)
\* What the bucket may hold when a listing is served.
Buckets == {{}, {KeyOrder[1]}, AllKeys}
ObjectSize(k) == Len(k)

UnderPrefix(st, prefix) == {k \in st : IsPrefix(prefix, k)}
Rest(k, prefix) == StripPrefix(k, Len(prefix))
RollUp(k, prefix) == prefix \o SubSeq(Rest(k, prefix), 1, FirstSlash(Rest(k, prefix)))

\* list_objects_v2(bucket, prefix, "/"): the objects directly under the prefix,
\* then one entry per common prefix.
ListObjectsV2(st, prefix) ==
    LET direct == {k \in UnderPrefix(st, prefix) : ~HasSlash(Rest(k, prefix))}
        rolled == {RollUp(k, prefix) : k \in {x \in UnderPrefix(st, prefix) : HasSlash(Rest(x, prefix))}}
        objs == SelectSeq(KeyOrder, LAMBDA k : k \in direct)
        cps == SelectSeq(PrefixOrder, LAMBDA p : p \in rolled)
    IN  [i \in 1..(Len(objs) + Len(cps)) |->
            IF i <= Len(objs)
            THEN [key |-> objs[i], prefix |-> EmptyStr, size |-> ObjectSize(objs[i])]
            ELSE [key |-> EmptyStr, prefix |-> cps[i - Len(objs)], size |-> 0]]

\* ------------------------------------------------------------- state
VARIABLES
    inode_info,     \* Inode -> InodeInfo
    next_inode,     \* AtomicU64
    next_handle,    \* AtomicU64
    arcs,           \* the allocated entry maps (Arc<RwLock<HashMap<String, Inode>>>), by address
    dir_entries,    \* Inode -> address of its entry map
    dir_handles,    \* fh -> DirHandle
    inflight_reads, \* fh -> the session bound to it
    created,        \* fh -> how many sessions were created for it
    issued,         \* the handle ids given out, in allocation order, with the operation
    built,          \* the dictionaries that opendirs finished building, each with its directory and listing
    dir_ghost,      \* fh -> the directory, the listing and the bucket content it was built from
    pc,             \* task -> program point
    loc,            \* task -> the running callback's arguments and locals
    reply,          \* the reply the last step sent
    net,            \* the object-store request the last step issued: "none", "list", "get"
    walk            \* the enumeration of a directory handle that the kernel has under way

shared == <<inode_info, next_inode, next_handle, arcs, dir_entries, dir_handles, inflight_reads>>
ghost == <<created, issued, built, dir_ghost>>
vars == <<shared, ghost, pc, loc, reply, net, walk>>

NoReply == [op |-> "none"]
NoLoc == [op |-> "none"]
NoWalk == [fh |-> 0]

\* InodeInfo::new
InodeInfoNew(name, parent, kind, size) ==
    [name |-> name, parent |-> parent, kind |-> kind, size |-> size]

\* S3Filesystem::new
RootInfo == InodeInfoNew(EmptyStr, ROOT_INODE, "Directory", 1)
RootEntries == MapInsert(MapInsert(EmptyMap, Dot, ROOT_INODE), DotDot, ROOT_INODE)

Init ==
    /\ inode_info = MapInsert(EmptyMap, ROOT_INODE, RootInfo)
    /\ next_inode = ROOT_INODE + 1
    /\ next_handle = 1
    /\ arcs = <<RootEntries>>
    /\ dir_entries = MapInsert(EmptyMap, ROOT_INODE, 1)
    /\ dir_handles = EmptyMap
    /\ inflight_reads = EmptyMap
    /\ created = [fh \in 1..MaxHandle |-> 0]
    /\ issued = <<>>
    /\ built = {}
    /\ dir_ghost = EmptyMap
    /\ pc = [t \in Tasks |-> "idle"]
    /\ loc = [t \in Tasks |-> NoLoc]
    /\ reply = NoReply
    /\ net = "none"
    /\ walk = NoWalk


\* ---------------------------------------------------------- the locks
\* Faulty variant, for comparison: opendir takes inode_info.write() before it
\* sends its listing request.
InodeInfoWriteLockedAcrossListing == \E u \in Tasks : pc[u] \in {"od_list", "od_loop"}

\* inode_info.write() is held between the turns of opendir's loop.
InodeInfoWriteLocked == \E u \in Tasks : pc[u] = "od_loop"
\* Faulty variant, for comparison: a read that finds no session keeps
\* inflight_reads.read() while it asks for inflight_reads.write().
InflightReadLockedNotDropped == \E u \in Tasks : pc[u] \in {"rd_insert", "rd_lock", "rd_stream"}

\* dir_handles.read() is held by a readdir until it has replied.
DirHandlesReadLocked == \E u \in Tasks : pc[u] = "rdd_info"
\* inflight_reads.read() is held by a read from the lookup of its session to its reply.
InflightReadLocked == \E u \in Tasks : pc[u] \in {"rd_lock", "rd_stream"}
\* The Mutex of session sid of handle fh is held by the read that streams from it.
MutexHeld(fh, sid) ==
    \E u \in Tasks : pc[u] = "rd_stream" /\ loc[u].fh = fh /\ loc[u].session = sid

\* ------------------------------------------------------ path_from_root
None == [tag |-> "None"]
Diverges == [tag |-> "Diverges"]
Some(v) == [tag |-> "Some", val |-> v]

\* The while loop: `path` grows by one basename per parent link.  A walk longer
\* than the table is a walk round a cycle, which never ends.
RECURSIVE PathWalk(_, _, _, _)
PathWalk(info, ino, path, fuel) ==
    IF ino = ROOT_INODE THEN Some(Join(Reverse(path)))
    ELSE IF ino \notin DOMAIN info THEN None
    ELSE IF fuel = 0 THEN Diverges
    ELSE PathWalk(info, info[ino].parent, Append(path, info[ino].name), fuel - 1)

\* Faulty variant, for comparison: an inode with no record resolves to the root's path.
PathFromRootLax(info, ino) ==
    IF ino = ROOT_INODE \/ ino \notin DOMAIN info THEN Some(EmptyStr)
    ELSE PathWalk(info, ino, <<EmptyStr>>, Cardinality(DOMAIN info))

PathFromRoot(info, ino) ==
    IF ino = ROOT_INODE THEN Some(EmptyStr)
    ELSE PathWalk(info, ino, <<EmptyStr>>, Cardinality(DOMAIN info))

\* ----------------------------------------------------------- counters
\* Faulty variants, for comparison: a counter that is read and not advanced.
NextInodeStuck(counter) == counter
NextHandleStuck(counter) == counter
OpenHandleStuck(counter) == counter

\* fetch_add(1, SeqCst) returns the counter and leaves it one higher: in
\* next_inode(), in next_handle(), and in open, which adds to next_handle itself.
NextInodeAfter(counter) == counter + 1
NextHandleAfter(counter) == counter + 1
OpenHandleAfter(counter) == counter + 1

\* ---------------------------------------------------------- make_attr
MakeAttr(ino, info) ==
    [ino |-> ino, size |-> info.size, blocks |-> info.size \div BLOCK_SIZE, kind |-> info.kind,
     perm |-> IF info.kind = "RegularFile" THEN FILE_PERMISSIONS ELSE DIR_PERMISSIONS,
     nlink |-> IF info.kind = "RegularFile" THEN 1 ELSE 2,
     blksize |-> IF info.kind = "RegularFile" THEN BLOCK_SIZE ELSE DIR_BLKSIZE]

ROOT_DIR_ATTR ==
    [ino |-> ROOT_INODE, size |-> 0, blocks |-> 0, kind |-> "Directory",
     perm |-> DIR_PERMISSIONS, nlink |-> 2, blksize |-> DIR_BLKSIZE]

\* ------------------------------------------------------ step plumbing
\* A callback moves to its next program point; what the kernel keeps of an
\* enumeration is not the callback's to change.
Goto(t, p, l) == pc' = [pc EXCEPT ![t] = p] /\ loc' = [loc EXCEPT ![t] = l] /\ walk' = walk
Finish(t, r) == Goto(t, "idle", NoLoc) /\ reply' = r
Err(t, op, args, errno) == [op |-> op, args |-> args, status |-> errno]
Ok(t, op, args, val) == [op |-> op, args |-> args, status |-> "ok", val |-> val]

\* The inputs the kernel may send: any inode number for opendir, the root and the
\* first inode a listing creates for lookup and getattr.
InodeArgs == 1..MaxInode
ParentArgs == {ROOT_INODE, ROOT_INODE + 1}
HandleArgs == 1..MaxHandle
NameArgs == {Dot, <<"a">>}
OffsetArgs == 0..MaxOffset

\* -------------------------------------------------------------- lookup
\* Faulty variant, for comparison: a miss falls back to the root inode.
EntriesGetOrRoot(m, name) == Some(IF name \in DOMAIN m THEN m[name] ELSE ROOT_INODE)

\* HashMap::get on an entry map.
EntriesGet(m, name) == IF name \in DOMAIN m THEN Some(m[name]) ELSE None

\* dir_entries.read(): the Arc of the parent's entry map is cloned, or ENOENT.
LookupStart(t, parent, name) ==
    /\ pc[t] = "idle"
    /\ IF parent \in DOMAIN dir_entries
       THEN /\ Goto(t, "lk_read", [op |-> "lookup", parent |-> parent, name |-> name,
                                   entries |-> dir_entries[parent]])
            /\ reply' = NoReply
       ELSE Finish(t, Err(t, "lookup", <<parent, name>>, "ENOENT"))
    /\ net' = "none"
    /\ UNCHANGED <<shared, ghost>>

\* The cloned entry map is read for the name.
LookupRead(t) ==
    /\ pc[t] = "lk_read"
    /\ LET got == EntriesGet(arcs[loc[t].entries], loc[t].name)
       IN  IF got.tag = "Some"
           THEN /\ Goto(t, "lk_info", [loc[t] EXCEPT !.op = "lookup"] @@ [ino |-> got.val])
                /\ reply' = NoReply
           ELSE Finish(t, Err(t, "lookup", <<loc[t].parent, loc[t].name>>, "ENOENT"))
    /\ net' = "none"
    /\ UNCHANGED <<shared, ghost>>

\* inode_info.read(): the attributes of the inode found.
LookupInfo(t) ==
    /\ pc[t] = "lk_info"
    /\ ~InodeInfoWriteLocked
    /\ IF loc[t].ino \in DOMAIN inode_info
       THEN Finish(t, Ok(t, "lookup", <<loc[t].parent, loc[t].name>>,
                         MakeAttr(loc[t].ino, inode_info[loc[t].ino])))
       ELSE Finish(t, Err(t, "lookup", <<loc[t].parent, loc[t].name>>, "panic"))
    /\ net' = "none"
    /\ UNCHANGED <<shared, ghost>>

\* ------------------------------------------------------------- getattr
Getattr(t, ino) ==
    /\ pc[t] = "idle"
    /\ IF ino = ROOT_INODE
       THEN Finish(t, Ok(t, "getattr", <<>>, ROOT_DIR_ATTR))
       ELSE /\ ~InodeInfoWriteLocked
            /\ IF ino \in DOMAIN inode_info
               THEN Finish(t, Ok(t, "getattr", <<>>, MakeAttr(ino, inode_info[ino])))
               ELSE Finish(t, Err(t, "getattr", <<>>, "ENOENT"))
    /\ net' = "none"
    /\ UNCHANGED <<shared, ghost>>

\* ---------------------------------------------------------------- open
\* The handles that opendirs past their listing will still take.
PendingHandles == Cardinality({u \in Tasks : pc[u] \in {"od_lock", "od_loop", "od_publish", "od_handle"}})

Open(t, ino) ==
    /\ pc[t] = "idle"
    /\ next_handle + PendingHandles <= MaxHandle
    /\ next_handle' = OpenHandleAfter(next_handle)
    /\ issued' = Append(issued, [fh |-> next_handle, by |-> "open"])
    /\ Finish(t, Ok(t, "open", <<>>, next_handle))
    /\ net' = "none"
    /\ UNCHANGED <<inode_info, next_inode, arcs, dir_entries, dir_handles,
                   inflight_reads, created, built, dir_ghost>>


\* ---------------------------------------------------------------- read
\* Faulty variant, for comparison: every inode is taken for the file.
IsFileInodeAny(ino) == TRUE

\* ino == FILE_INODE
IsFileInode(ino) == ino = FILE_INODE

\* inflight_reads.read(), contains_key(&fh); on a miss the read lock is dropped.
ReadStart(t, ino, fh) ==
    /\ pc[t] = "idle"
    /\ IF IsFileInode(ino)
       THEN /\ Goto(t, IF fh \in DOMAIN inflight_reads THEN "rd_lock" ELSE "rd_insert",
                    [op |-> "read", ino |-> ino, fh |-> fh])
            /\ reply' = NoReply
       ELSE Finish(t, Err(t, "read", <<ino>>, "ENOENT"))
    /\ net' = "none"
    /\ UNCHANGED <<shared, ghost>>

\* inflight_reads.write(): a new StreamingGetObject is inserted under fh.
ReadInsert(t) ==
    /\ pc[t] = "rd_insert"
    /\ ~InflightReadLocked
    /\ inflight_reads' = MapInsert(inflight_reads, loc[t].fh, created[loc[t].fh] + 1)
    /\ created' = [created EXCEPT ![loc[t].fh] = @ + 1]
    /\ Goto(t, "rd_reacquire", loc[t])
    /\ reply' = NoReply
    /\ net' = "none"
    /\ UNCHANGED <<inode_info, next_inode, next_handle, arcs, dir_entries,
                   dir_handles, issued, built, dir_ghost>>

\* inflight_reads.read() is taken again.
ReadReacquire(t) ==
    /\ pc[t] = "rd_reacquire"
    /\ Goto(t, "rd_lock", loc[t])
    /\ reply' = NoReply
    /\ net' = "none"
    /\ UNCHANGED <<shared, ghost>>

\* Faulty variant, for comparison: the session is read without its mutex.
MutexFreeAlways(fh, sid) == TRUE

\* Mutex::lock of the session now bound to fh.
MutexFree(fh, sid) == ~MutexHeld(fh, sid)

ReadLock(t) ==
    /\ pc[t] = "rd_lock"
    /\ loc[t].fh \in DOMAIN inflight_reads
    /\ MutexFree(loc[t].fh, inflight_reads[loc[t].fh])
    /\ Goto(t, "rd_stream", [op |-> "read", ino |-> loc[t].ino, fh |-> loc[t].fh,
                             session |-> inflight_reads[loc[t].fh]])
    /\ reply' = NoReply
    /\ net' = "none"
    /\ UNCHANGED <<shared, ghost>>

\* StreamingGetObject::read, reply.data; the mutex and the read lock are dropped.
ReadStream(t) ==
    /\ pc[t] = "rd_stream"
    /\ Finish(t, Ok(t, "read", <<>>, loc[t].session))
    /\ net' = "get"
    /\ UNCHANGED <<shared, ghost>>

\* ------------------------------------------------------------- opendir
\* The inodes that opendirs past their listing will still take.
RECURSIVE SumLen(_)
SumLen(ts) ==
    IF ts = {} THEN 0
    ELSE LET u == CHOOSE x \in ts : TRUE IN Len(loc[u].children) + SumLen(ts \ {u})
PendingInodes == SumLen({u \in Tasks : pc[u] \in {"od_lock", "od_loop"}})

\* path_from_root(parent): ENOENT when the chain of parents is broken.
OpendirStart(t, parent) ==
    /\ pc[t] = "idle"
    /\ parent = ROOT_INODE \/ ~InodeInfoWriteLocked
    /\ LET path == PathFromRoot(inode_info, parent)
       IN  /\ path.tag # "Diverges"
           /\ IF path.tag = "Some"
              THEN /\ Goto(t, "od_list", [op |-> "opendir", parent |-> parent, prefix |-> path.val])
                   /\ reply' = NoReply
              ELSE Finish(t, Err(t, "opendir", <<parent>>, "ENOENT"))
    /\ net' = "none"
    /\ UNCHANGED <<shared, ghost>>

\* list_objects_v2(...).await fails: EIO.
OpendirListErr(t) ==
    /\ pc[t] = "od_list"
    /\ Finish(t, Err(t, "opendir", <<>>, "EIO"))
    /\ net' = "list"
    /\ UNCHANGED <<shared, ghost>>

\* list_objects_v2(...).await returns the listing of the bucket, which holds the
\* keys st when the request is served.
OpendirListOk(t, st) ==
    /\ pc[t] = "od_list"
    /\ LET children == ListObjectsV2(st, loc[t].prefix)
       IN  /\ next_handle + PendingHandles + 1 <= MaxHandle + 1
           /\ next_inode + PendingInodes + Len(children) <= MaxInode + 1
           /\ Goto(t, "od_lock", [op |-> "opendir", parent |-> loc[t].parent, prefix |-> loc[t].prefix,
                                  listing |-> children, children |-> children])
    /\ reply' = NoReply
    /\ net' = "list"
    /\ UNCHANGED <<shared, ghost>>

\* The name and the kind of a listed child: an object by its key, a common prefix
\* by the prefix less its final '/', either with the directory's prefix cut off.
ChildName(child, prefix) ==
    StripPrefix(IF child.key # EmptyStr THEN child.key ELSE Pop(child.prefix), Len(prefix))
ChildKind(child) == IF child.key # EmptyStr THEN "RegularFile" ELSE "Directory"

\* One turn of the loop over the listing: the child at the head of what is left
\* gets the next inode, a record in the table and a name in the new map.
LoopTurn(l, info, counter) ==
    LET child == Head(l.children)
        name == ChildName(child, l.prefix)
    IN  [loc |-> [l EXCEPT !.children = Tail(@),
                           !.new_inodes = Append(@, counter),
                           !.new_map = MapInsert(@, name, counter)],
         inode_info |-> MapInsert(info, counter, InodeInfoNew(name, l.parent, ChildKind(child), child.size)),
         next_inode |-> NextInodeAfter(counter)]

\* The opendir leaves the loop when nothing is left of the listing: drop(inode_info).
AfterTurn(t, l) ==
    IF l.children = <<>>
    THEN /\ Goto(t, "od_publish", l)
         /\ built' = built \cup {[parent |-> l.parent, prefix |-> l.prefix,
                                  listing |-> l.listing, map |-> l.new_map]}
    ELSE /\ Goto(t, "od_loop", l)
         /\ UNCHANGED built

\* HashMap::new(), inode_info.write(), Vec::new(), and the first turn of the loop
\* (none for an empty listing, and the lock is dropped at once).
OpendirLock(t) ==
    /\ pc[t] = "od_lock"
    /\ ~InodeInfoWriteLocked
    /\ LET l == loc[t] @@ [new_map |-> EmptyMap, new_inodes |-> <<>>]
       IN  IF l.children = <<>>
           THEN /\ AfterTurn(t, l)
                /\ UNCHANGED <<inode_info, next_inode>>
           ELSE LET turn == LoopTurn(l, inode_info, next_inode)
                IN  /\ inode_info' = turn.inode_info
                    /\ next_inode' = turn.next_inode
                    /\ AfterTurn(t, turn.loc)
    /\ reply' = NoReply
    /\ net' = "none"
    /\ UNCHANGED <<next_handle, arcs, dir_entries, dir_handles, inflight_reads, created, issued, dir_ghost>>

\* A further turn of the loop, with inode_info.write() held.
OpendirChild(t) ==
    /\ pc[t] = "od_loop"
    /\ LET turn == LoopTurn(loc[t], inode_info, next_inode)
       IN  /\ inode_info' = turn.inode_info
           /\ next_inode' = turn.next_inode
           /\ AfterTurn(t, turn.loc)
    /\ reply' = NoReply
    /\ net' = "none"
    /\ UNCHANGED <<next_handle, arcs, dir_entries, dir_handles, inflight_reads, created, issued, dir_ghost>>

\* Faulty variant, for comparison: the new names are written into the map that is already published.
PublishEntriesInPlace(entries, heap, parent, new_map) ==
    IF parent \in DOMAIN entries
    THEN [dir_entries |-> entries, arcs |-> [heap EXCEPT ![entries[parent]] = new_map @@ @]]
    ELSE [dir_entries |-> MapInsert(entries, parent, Len(heap) + 1), arcs |-> Append(heap, new_map)]

\* Faulty variant, for comparison: the inodes of the replaced map are removed from the inode table.
RetireOldGC(info, old_map) == MapRemoveAll(info, Range(old_map) \ {ROOT_INODE})

\* dir_entries.insert(parent, Arc::new(RwLock::new(new_map))): a new map at a new
\* address; the map that was there is left as it is.
PublishEntries(entries, heap, parent, new_map) ==
    [dir_entries |-> MapInsert(entries, parent, Len(heap) + 1), arcs |-> Append(heap, new_map)]

\* The inodes of the replaced map stay in the inode table.
RetireOld(info, old_map) == info

\* dir_entries.write() is taken for the insert alone; the inode table is not
\* touched, so the step does not wait for inode_info.
OpendirPublish(t) ==
    /\ pc[t] = "od_publish"
    /\ LET pub == PublishEntries(dir_entries, arcs, loc[t].parent, loc[t].new_map)
           old_map == IF loc[t].parent \in DOMAIN dir_entries
                      THEN arcs[dir_entries[loc[t].parent]] ELSE EmptyMap
       IN  /\ dir_entries' = pub.dir_entries
           /\ arcs' = pub.arcs
           /\ inode_info' = RetireOld(inode_info, old_map)
    /\ Goto(t, "od_handle", loc[t])
    /\ reply' = NoReply
    /\ net' = "none"
    /\ UNCHANGED <<next_inode, next_handle, dir_handles, inflight_reads, ghost>>

\* self.next_handle()
OpendirHandle(t) ==
    /\ pc[t] = "od_handle"
    /\ next_handle' = NextHandleAfter(next_handle)
    /\ issued' = Append(issued, [fh |-> next_handle, by |-> "opendir"])
    /\ Goto(t, "od_insert", loc[t] @@ [fh |-> next_handle])
    /\ reply' = NoReply
    /\ net' = "none"
    /\ UNCHANGED <<inode_info, next_inode, arcs, dir_entries, dir_handles,
                   inflight_reads, created, built, dir_ghost>>

\* dir_handles.write(), insert(fh, handle), reply.opened(fh).
OpendirInsert(t) ==
    /\ pc[t] = "od_insert"
    /\ ~DirHandlesReadLocked
    /\ dir_handles' = MapInsert(dir_handles, loc[t].fh, [children |-> loc[t].new_inodes])
    /\ dir_ghost' = MapInsert(dir_ghost, loc[t].fh,
                              [parent |-> loc[t].parent, prefix |-> loc[t].prefix,
                               listing |-> loc[t].listing])
    /\ Finish(t, Ok(t, "opendir", <<>>, loc[t].fh))
    /\ net' = "none"
    /\ UNCHANGED <<inode_info, next_inode, next_handle, arcs, dir_entries,
                   inflight_reads, created, issued, built>>

\* ------------------------------------------------------------- readdir
\* What readdir adds to its reply for child number i (counted from 0) of a handle.
DirEntry(info, children, i) ==
    [ino |-> children[i + 1], next |-> i + 3,
     kind |-> info[children[i + 1]].kind, name |-> info[children[i + 1]].name]

\* The entries of a reply that starts at `offset`.
ReaddirEntries(info, children, offset) ==
    [j \in 1..(Len(children) - offset) |-> DirEntry(info, children, offset + j - 1)]

\* Faulty variant, for comparison: past the end the last child is reported again.
ReplyDoneRepeating(info, children, offset) ==
    IF children = <<>> THEN <<>> ELSE <<DirEntry(info, children, Len(children) - 1)>>

\* (offset as usize) >= handle.children.len()
PastEnd(offset, children) == offset >= Len(children)
\* reply.ok() with no entry added.
ReplyDone(info, children, offset) == <<>>

\* dir_handles.read(): EBADF for an unknown handle, an empty reply past the end.
ReaddirStart(t, ino, fh, offset) ==
    /\ pc[t] = "idle"
    /\ IF fh \notin DOMAIN dir_handles
       THEN Finish(t, Err(t, "readdir", <<>>, "EBADF"))
       ELSE IF PastEnd(offset, dir_handles[fh].children)
       THEN Finish(t, Ok(t, "readdir", <<>>, ReplyDone(inode_info, dir_handles[fh].children, offset)))
       ELSE /\ Goto(t, "rdd_info", [op |-> "readdir", ino |-> ino, fh |-> fh, offset |-> offset,
                                    handle |-> dir_handles[fh]])
            /\ reply' = NoReply
    /\ net' = "none"
    /\ UNCHANGED <<shared, ghost>>

\* The loop of readdir: the entries, unless a child has no record (unwrap panics).
ReaddirResult(info, children, offset) ==
    IF \A i \in (offset + 1)..Len(children) : children[i] \in DOMAIN info
    THEN Some(ReaddirEntries(info, children, offset))
    ELSE None

\* inode_info.read(): one entry per child from the offset on.
ReaddirInfo(t) ==
    /\ pc[t] = "rdd_info"
    /\ ~InodeInfoWriteLocked
    /\ LET res == ReaddirResult(inode_info, loc[t].handle.children, loc[t].offset)
       IN  IF res.tag = "Some"
           THEN Finish(t, Ok(t, "readdir", <<>>, res.val))
           ELSE Finish(t, Err(t, "readdir", <<>>, "panic"))
    /\ net' = "none"
    /\ UNCHANGED <<shared, ghost>>

\* ------------------------------------------- the kernel's enumeration
\* The callback slot that serves the enumeration's readdir calls, and the one
\* that serves opendir meanwhile.
WalkTask == 2
OpenTask == 1

CapacityArgs == 1..MaxCapacity
Min(a, b) == IF a <= b THEN a ELSE b

\* `let _ = reply.add(..)`: the reply buffer takes entries until it is full and
\* refuses the rest; readdir does not look at the refusal and goes on adding.
Delivered(entries, capacity) == SubSeq(entries, 1, Min(capacity, Len(entries)))

\* The kernel starts to enumerate handle fh from an offset.
WalkBegin(fh, offset) ==
    /\ pc[WalkTask] = "idle"
    /\ reply.op # "readdir"
    /\ walk' = [fh |-> fh, start |-> offset, next |-> offset, got |-> <<>>, done |-> FALSE]
    /\ reply' = NoReply
    /\ net' = "none"
    /\ UNCHANGED <<shared, ghost, pc, loc>>

\* The kernel calls readdir at the offset its enumeration has reached.
WalkCall ==
    /\ walk # NoWalk
    /\ reply.op # "readdir"
    /\ ReaddirStart(WalkTask, ROOT_INODE, walk.fh, walk.next)

\* The kernel takes the reply: the entries that fitted in its buffer, and from the
\* last of them the offset to go on from; an empty reply ends the enumeration and
\* an error abandons it.
WalkReceive(capacity) ==
    /\ walk # NoWalk
    /\ reply.op = "readdir"
    /\ walk' = IF reply.status # "ok" THEN NoWalk
                ELSE IF reply.val = <<>> THEN [walk EXCEPT !.done = TRUE]
                ELSE LET d == Delivered(reply.val, capacity)
                     IN  [walk EXCEPT !.got = @ \o d, !.next = d[Len(d)].next]
    /\ reply' = NoReply
    /\ net' = "none"
    /\ UNCHANGED <<shared, ghost, pc, loc>>

NextDir ==
    \/ \E t \in DirTasks, parent \in ParentArgs, name \in NameArgs : LookupStart(t, parent, name)
    \/ \E t \in DirTasks : LookupRead(t)
    \/ \E t \in DirTasks : LookupInfo(t)
    \/ \E t \in DirTasks, ino \in ParentArgs : Getattr(t, ino)
    \/ \E t \in DirTasks, ino \in {FILE_INODE} : Open(t, ino)
    \/ \E t \in DirTasks, parent \in InodeArgs : OpendirStart(t, parent)
    \/ \E t \in DirTasks : OpendirListErr(t)
    \/ \E t \in DirTasks, st \in Buckets : OpendirListOk(t, st)
    \/ \E t \in DirTasks : OpendirLock(t)
    \/ \E t \in DirTasks : OpendirChild(t)
    \/ \E t \in DirTasks : OpendirPublish(t)
    \/ \E t \in DirTasks : OpendirHandle(t)
    \/ \E t \in DirTasks : OpendirInsert(t)
    \/ \E t \in DirTasks, fh \in HandleArgs, offset \in OffsetArgs : ReaddirStart(t, ROOT_INODE, fh, offset)
    \/ \E t \in DirTasks : ReaddirInfo(t)

NextRead ==
    \/ \E t \in Tasks, ino \in {FILE_INODE} : Open(t, ino)
    \/ \E t \in Tasks, ino \in {ROOT_INODE, FILE_INODE}, fh \in HandleArgs : ReadStart(t, ino, fh)
    \/ \E t \in Tasks : ReadInsert(t)
    \/ \E t \in Tasks : ReadReacquire(t)
    \/ \E t \in Tasks : ReadLock(t)
    \/ \E t \in Tasks : ReadStream(t)

NextReaddir ==
    \/ \E parent \in InodeArgs : OpendirStart(OpenTask, parent)
    \/ OpendirListErr(OpenTask)
    \/ \E st \in Buckets : OpendirListOk(OpenTask, st)
    \/ OpendirLock(OpenTask)
    \/ OpendirChild(OpenTask)
    \/ OpendirPublish(OpenTask)
    \/ OpendirHandle(OpenTask)
    \/ OpendirInsert(OpenTask)
    \/ \E fh \in HandleArgs, offset \in OffsetArgs : WalkBegin(fh, offset)
    \/ WalkCall
    \/ ReaddirInfo(WalkTask)
    \/ \E capacity \in CapacityArgs : WalkReceive(capacity)

\* The directory operations and open, run by two concurrent callbacks.
SpecDir == Init /\ [][NextDir]_vars

\* open and read, run by NumTasks concurrent callbacks.
SpecRead == Init /\ [][NextRead]_vars

\* opendir by one callback, and the kernel enumerating handles through readdir by
\* another.
SpecReaddir == Init /\ [][NextReaddir]_vars

\* --------------------------------------------- all six calls together
\* The handle ids that open has returned.
FileHandles == {issued[i].fh : i \in {j \in DOMAIN issued : issued[j].by = "open"}}

\* The object store of this specification is empty or holds every key.
LiveBuckets == {{}, AllKeys}

\* Every call the kernel sends, served by two concurrent callbacks; read and
\* readdir carry a handle that open and opendir have returned.
NextAll ==
    \/ \E t \in DirTasks, name \in NameArgs : LookupStart(t, ROOT_INODE, name)
    \/ \E t \in DirTasks : LookupRead(t)
    \/ \E t \in DirTasks : LookupInfo(t)
    \/ \E t \in DirTasks, ino \in ParentArgs : Getattr(t, ino)
    \/ \E t \in DirTasks : Open(t, FILE_INODE)
    \/ \E t \in DirTasks, fh \in FileHandles : ReadStart(t, FILE_INODE, fh)
    \/ \E t \in DirTasks : ReadInsert(t)
    \/ \E t \in DirTasks : ReadReacquire(t)
    \/ \E t \in DirTasks : ReadLock(t)
    \/ \E t \in DirTasks : ReadStream(t)
    \/ \E t \in DirTasks : OpendirStart(t, ROOT_INODE)
    \/ \E t \in DirTasks : OpendirListErr(t)
    \/ \E t \in DirTasks, st \in LiveBuckets : OpendirListOk(t, st)
    \/ \E t \in DirTasks : OpendirLock(t)
    \/ \E t \in DirTasks : OpendirChild(t)
    \/ \E t \in DirTasks : OpendirPublish(t)
    \/ \E t \in DirTasks : OpendirHandle(t)
    \/ \E t \in DirTasks : OpendirInsert(t)
    \/ \E t \in DirTasks, fh \in DOMAIN dir_handles : ReaddirStart(t, ROOT_INODE, fh, 0)
    \/ \E t \in DirTasks : ReaddirInfo(t)

\* The steps of a callback under way that wait for nothing another callback
\* holds: plain statements, and the return of an object-store request.
Runs(t) ==
    \/ LookupRead(t)
    \/ ReadReacquire(t)
    \/ ReadStream(t)
    \/ OpendirListErr(t)
    \/ \E st \in LiveBuckets : OpendirListOk(t, st)
    \/ OpendirChild(t)
    \/ OpendirPublish(t)
    \/ OpendirHandle(t)

\* The steps of a callback under way that take a lock another callback may hold
\* across its own steps: inode_info.read() and .write(), dir_handles.write(),
\* inflight_reads.write(), and a session's Mutex.
Acquires(t) ==
    \/ LookupInfo(t)
    \/ ReaddirInfo(t)
    \/ OpendirLock(t)
    \/ OpendirInsert(t)
    \/ ReadInsert(t)
    \/ ReadLock(t)

\* Fair scheduling: a callback that can run does run, and a callback that waits
\* for a lock gets it if the lock is free again and again.
Fairness == \A t \in DirTasks : WF_vars(Runs(t)) /\ SF_vars(Acquires(t))

SpecAll == Init /\ [][NextAll]_vars /\ Fairness

\* ============================================================ claims

\* The entry map a directory has now.
LiveMap(d) == arcs[dir_entries[d]]

\* The names a listing gives to its children under a prefix.
ListingNames(listing, prefix) == {ChildName(listing[i], prefix) : i \in DOMAIN listing}

\* C1: every directory's entry set maps `.` to the directory and `..` to its
\* parent (the root's `..` to the root), in every reachable state.
C1_DotEntries ==
    \A d \in DOMAIN dir_entries :
        /\ d \in DOMAIN inode_info
        /\ Dot \in DOMAIN LiveMap(d) /\ LiveMap(d)[Dot] = d
        /\ DotDot \in DOMAIN LiveMap(d) /\ LiveMap(d)[DotDot] = inode_info[d].parent

\* A map is the mount-time dictionary of the root, or the whole dictionary that one
\* opendir of directory d built: a name for every child of its listing.
CompleteFor(d, m) ==
    \/ d = ROOT_INODE /\ m = RootEntries
    \/ \E b \in built : /\ b.parent = d
                        /\ b.map = m
                        /\ DOMAIN m = ListingNames(b.listing, b.prefix)

\* C2: the entry set a lookup reads for a directory, and the entry set a directory
\* has at any moment, is the complete dictionary built by one opendir of that
\* directory or the mount-time dictionary: never a half-built one, never a mixture.
C2_AtomicPublish ==
    /\ \A d \in DOMAIN dir_entries : CompleteFor(d, LiveMap(d))
    /\ \A t \in DirTasks :
         pc[t] \in {"lk_read", "lk_info"} => CompleteFor(loc[t].parent, arcs[loc[t].entries])

\* A lookup is about to read a map that a concurrent opendir has since replaced
\* by a different one.
C2_Witness ==
    \E t \in DirTasks :
        /\ pc[t] = "lk_read"
        /\ dir_entries[loc[t].parent] # loc[t].entries
        /\ LiveMap(loc[t].parent) # arcs[loc[t].entries]
        /\ LiveMap(loc[t].parent) # EmptyMap

\* Whether the chain of parents from an inode reaches the root within the table.
RECURSIVE ChainReachesRoot(_, _, _)
ChainReachesRoot(info, ino, fuel) ==
    \/ ino = ROOT_INODE
    \/ /\ ino \in DOMAIN info
       /\ fuel > 0
       /\ ChainReachesRoot(info, info[ino].parent, fuel - 1)
Resolvable(ino) == ChainReachesRoot(inode_info, ino, Cardinality(DOMAIN inode_info))

\* C3: an opendir whose listing fails replies EIO, an opendir of a parent whose
\* path cannot be resolved replies ENOENT without issuing a listing (and only a
\* resolvable parent gets as far as the listing), and either way the inode table,
\* the entry sets, the directory handles and both counters are left as they were.
C3_OpendirFailureFrame ==
    [][\A t \in DirTasks :
        /\ (pc[t] = "od_list" /\ pc'[t] = "idle") =>
              /\ reply'.op = "opendir" /\ reply'.status = "EIO"
              /\ UNCHANGED shared
        /\ (pc[t] = "idle" /\ reply'.op = "opendir" /\ reply'.status = "ENOENT") =>
              /\ ~Resolvable(reply'.args[1])
              /\ net' = "none"
              /\ UNCHANGED shared
        /\ (pc[t] = "idle" /\ pc'[t] = "od_list") => Resolvable(loc'[t].parent)
        /\ (reply'.op = "opendir" /\ reply'.status # "ok") => UNCHANGED shared
      ]_vars

\* An opendir has just failed on its listing while a directory handle, a replaced
\* entry set and allocated inodes exist.
C3_Witness ==
    /\ reply.op = "opendir" /\ reply.status = "EIO"
    /\ net = "list"
    /\ DOMAIN dir_handles # {}
    /\ next_inode > ROOT_INODE + 1

\* The inodes that opendirs have allocated: per directory handle, and per opendir
\* that is between its loop and the insertion of its handle.
AllocOwners ==
    {<<"handle", fh>> : fh \in DOMAIN dir_handles}
        \cup {<<"task", t>> : t \in {u \in DirTasks : pc[u] \in {"od_loop", "od_publish", "od_handle", "od_insert"}}}
AllocOf(o) == IF o[1] = "handle" THEN dir_handles[o[2]].children ELSE loc[o[2]].new_inodes
NoDuplicates(q) == \A i, j \in DOMAIN q : q[i] = q[j] => i = j

\* C4: inode numbers are unique and never reused: no number is given to two
\* entries of one listing or of two listings, none is the root's, every opendir
\* that has completed holds one inode per listed entry, the table holds exactly
\* the root and the allocated inodes, and the root is always in the table.
C4_InodesUnique ==
    /\ ROOT_INODE \in DOMAIN inode_info
    /\ inode_info[ROOT_INODE] = RootInfo
    /\ \A o \in AllocOwners :
          /\ NoDuplicates(AllocOf(o))
          /\ \A i \in DOMAIN AllocOf(o) : /\ AllocOf(o)[i] # ROOT_INODE
                                          /\ AllocOf(o)[i] < next_inode
                                          /\ AllocOf(o)[i] \in DOMAIN inode_info
    /\ \A o1, o2 \in AllocOwners : o1 # o2 => Range(AllocOf(o1)) \cap Range(AllocOf(o2)) = {}
    /\ DOMAIN inode_info = {ROOT_INODE} \cup UNION {Range(AllocOf(o)) : o \in AllocOwners}
    /\ \A fh \in DOMAIN dir_handles : Len(dir_handles[fh].children) = Len(dir_ghost[fh].listing)

\* Two opendirs have completed and each handle holds inodes of its own.
C4_Witness ==
    \E h1, h2 \in DOMAIN dir_handles :
        /\ h1 # h2
        /\ dir_handles[h1].children # <<>>
        /\ dir_handles[h2].children # <<>>

\* C5: the handle ids of open and opendir come from one counter, strictly
\* increasing in allocation order, so no two calls get the same id and none is
\* reused; the id a call replies with is the id it was allocated.
C5_HandlesUnique ==
    /\ \A i, j \in DOMAIN issued : i < j => issued[i].fh < issued[j].fh
    /\ \A i \in DOMAIN issued : issued[i].fh < next_handle
    /\ \A fh \in DOMAIN dir_handles : \E i \in DOMAIN issued : issued[i] = [fh |-> fh, by |-> "opendir"]
    /\ (reply.op = "open") => issued[Len(issued)] = [fh |-> reply.val, by |-> "open"]
    /\ (reply.op = "opendir" /\ reply.status = "ok") =>
          \E i \in DOMAIN issued : issued[i] = [fh |-> reply.val, by |-> "opendir"]

\* An opendir took its handle id before, and replied after, an open that got the
\* next id.
C5_Witness ==
    /\ reply.op = "opendir" /\ reply.status = "ok"
    /\ \E i, j \in DOMAIN issued :
          /\ i < j
          /\ issued[i] = [fh |-> reply.val, by |-> "opendir"]
          /\ issued[j].by = "open"

\* C6: over the lifetime of a file handle one session is created for it: the
\* first read creates it and no later or concurrent read creates another.
C6_OneSessionPerHandle ==
    \A fh \in FileHandles : created[fh] <= 1

\* C7: no two reads stream from the session of the same handle at the same time.
C7_ReadsExclusive ==
    \A t1, t2 \in Tasks :
        (t1 # t2 /\ pc[t1] = "rd_stream" /\ pc[t2] = "rd_stream") => loc[t1].fh # loc[t2].fh

\* One read streams from a handle returned by open while another read of the same
\* handle waits for the session's mutex.
C7_Witness ==
    \E t1, t2 \in Tasks :
        /\ pc[t1] = "rd_stream" /\ pc[t2] = "rd_lock"
        /\ loc[t1].fh = loc[t2].fh
        /\ loc[t1].fh \in FileHandles

\* C8: what a directory handle holds and what readdir reports from it, at any
\* offset, is not changed by any step of any callback: the handle stays in the
\* table with the same children, and each child keeps its inode, name and kind.
C8_SnapshotImmutable ==
    [][\A fh \in DOMAIN dir_handles :
        /\ Range(dir_handles[fh].children) \subseteq DOMAIN inode_info
        /\ fh \in DOMAIN dir_handles'
        /\ dir_handles'[fh] = dir_handles[fh]
        /\ \/ inode_info' = inode_info
           \/ \A off \in 0..Len(dir_handles[fh].children) :
                 ReaddirResult(inode_info', dir_handles[fh].children, off)
                    = ReaddirResult(inode_info, dir_handles[fh].children, off)
      ]_vars

\* Two handles on one directory each hold their own children, and the directory's
\* entry set is no longer the one the first of them was opened with.
C8_Witness ==
    \E h1, h2 \in DOMAIN dir_handles :
        /\ h1 < h2
        /\ dir_ghost[h1].parent = dir_ghost[h2].parent
        /\ dir_handles[h1].children # <<>>
        /\ dir_handles[h2].children # <<>>
        /\ Range(LiveMap(dir_ghost[h1].parent)) \cap Range(dir_handles[h1].children) = {}

\* What a handle enumerates, as a multiset of (name, kind, size).
ChildFacts(fh) ==
    [i \in DOMAIN dir_handles[fh].children |->
        LET c == dir_handles[fh].children[i]
        IN  IF c \in DOMAIN inode_info
            THEN [name |-> inode_info[c].name, kind |-> inode_info[c].kind, size |-> inode_info[c].size]
            ELSE [name |-> EmptyStr, kind |-> "missing", size |-> 0]]
BagOf(q) == [v \in Range(q) |-> Cardinality({i \in DOMAIN q : q[i] = v})]

\* C9: two handles opened on the same directory from the same listing enumerate
\* the same multiset of (name, kind, size), with different inode numbers.
C9_OpendirIdempotent ==
    \A h1, h2 \in DOMAIN dir_handles :
        (/\ h1 # h2
         /\ dir_ghost[h1].parent = dir_ghost[h2].parent
         /\ dir_ghost[h1].listing = dir_ghost[h2].listing) =>
            /\ BagOf(ChildFacts(h1)) = BagOf(ChildFacts(h2))
            /\ Range(dir_handles[h1].children) \cap Range(dir_handles[h2].children) = {}

\* Two handles on one directory were built from the same non-empty listing.
C9_Witness ==
    \E h1, h2 \in DOMAIN dir_handles :
        /\ h1 # h2
        /\ dir_ghost[h1].parent = dir_ghost[h2].parent
        /\ dir_ghost[h1].listing = dir_ghost[h2].listing
        /\ dir_ghost[h1].listing # <<>>

\* C10: a lookup replies ENOENT when the parent has no entry set or the name is
\* not in the entry set it read, goes on to the inode table only with the inode the
\* entry set gives, issues no object-store request, and changes no table and no
\* counter.
C10_LookupFrame ==
    [][\A t \in DirTasks :
        /\ (pc[t] = "idle" /\ pc'[t] = "lk_read") =>
              /\ loc'[t].parent \in DOMAIN dir_entries
              /\ loc'[t].entries = dir_entries[loc'[t].parent]
        /\ (pc[t] = "idle" /\ pc' = pc /\ reply'.op = "lookup") =>
              /\ reply'.status = "ENOENT"
              /\ reply'.args[1] \notin DOMAIN dir_entries
        /\ (pc[t] = "lk_read" /\ pc'[t] # "lk_read") =>
              IF loc[t].name \in DOMAIN arcs[loc[t].entries]
              THEN pc'[t] = "lk_info" /\ loc'[t].ino = arcs[loc[t].entries][loc[t].name]
              ELSE pc'[t] = "idle" /\ reply'.op = "lookup" /\ reply'.status = "ENOENT"
        /\ (pc[t] = "lk_info" /\ pc'[t] # "lk_info") =>
              /\ reply'.op = "lookup" /\ reply'.status = "ok"
              /\ reply'.val = MakeAttr(loc[t].ino, inode_info[loc[t].ino])
        /\ (reply'.op = "lookup" \/ (pc[t] \in {"lk_read", "lk_info"} /\ pc'[t] # pc[t])
                \/ (pc[t] = "idle" /\ pc'[t] = "lk_read")) =>
              /\ net' = "none"
              /\ UNCHANGED shared
      ]_vars

\* A lookup of `a` in the root has replied ENOENT while an opendir of the root
\* holds a fresh listing in which the object store returned `a`.
C10_Witness ==
    /\ reply.op = "lookup" /\ reply.status = "ENOENT"
    /\ reply.args = <<ROOT_INODE, <<"a">> >>
    /\ \E t \in DirTasks :
          /\ pc[t] \in {"od_lock", "od_loop", "od_publish"}
          /\ loc[t].parent = ROOT_INODE
          /\ <<"a">> \in ListingNames(loc[t].listing, loc[t].prefix)

\* C11: a readdir of a known handle at an offset that is at or past the number
\* of children of the handle replies success with no entry, every time it is
\* called, and leaves every table and counter as it was.
C11_ReaddirPastEnd ==
    [][(/\ reply'.op = "readdir"
        /\ reply.op # "readdir"
        /\ walk # NoWalk
        /\ walk.fh \in DOMAIN dir_handles
        /\ walk.next >= Len(dir_handles[walk.fh].children)) =>
            /\ reply'.status = "ok"
            /\ reply'.val = <<>>
            /\ UNCHANGED <<shared, ghost>>
      ]_vars

\* An enumeration that has ended is asked again, past the end of a handle that
\* has children, and is answered with no entry again.
C11_Witness ==
    /\ reply.op = "readdir" /\ reply.status = "ok" /\ reply.val = <<>>
    /\ walk # NoWalk
    /\ walk.done
    /\ walk.fh \in DOMAIN dir_handles
    /\ dir_handles[walk.fh].children # <<>>
    /\ walk.next >= Len(dir_handles[walk.fh].children)

\* C12: a read of an inode other than the single file's is answered ENOENT at
\* once, whatever the handle: only a read of the file's inode gets as far as the
\* sessions, and the rejected read creates no session and changes no table and no
\* counter.
C12_ReadOtherInode ==
    [][\A t \in Tasks :
        /\ (pc[t] = "idle" /\ pc'[t] \in {"rd_lock", "rd_insert"}) => loc'[t].ino = FILE_INODE
        /\ (pc[t] = "idle" /\ pc' = pc /\ reply'.op = "read") =>
              /\ reply'.status = "ENOENT"
              /\ reply'.args[1] # FILE_INODE
              /\ UNCHANGED <<shared, ghost>>
      ]_vars

\* A read of another inode has been rejected while a session exists and a read
\* of the file is streaming from it.
C12_Witness ==
    /\ reply.op = "read" /\ reply.status = "ENOENT"
    /\ reply.args[1] # FILE_INODE
    /\ \E t \in Tasks : pc[t] = "rd_stream" /\ loc[t].fh \in DOMAIN inflight_reads

\* The parts of a string between its '/' characters.
RECURSIVE SplitFrom(_, _)
SplitFrom(s, part) ==
    IF s = <<>> THEN <<part>>
    ELSE IF Head(s) = Slash THEN <<part>> \o SplitFrom(Tail(s), EmptyStr)
    ELSE SplitFrom(Tail(s), Append(part, Head(s)))
Split(s) == SplitFrom(s, EmptyStr)

\* The basenames on the chain of parents of an inode, from below the root down
\* to the inode.
RECURSIVE ChainNames(_, _, _)
ChainNames(info, ino, fuel) ==
    IF ino = ROOT_INODE \/ ino \notin DOMAIN info \/ fuel = 0 THEN <<>>
    ELSE Append(ChainNames(info, info[ino].parent, fuel - 1), info[ino].name)

\* C13: for every inode of the table but the root, path_from_root ends and gives
\* the basenames from the root down to the inode joined by '/' with a '/' at the
\* end, so that splitting it on '/' gives back those basenames (and one empty
\* part after the last '/'); for the root it gives the empty string.
C13_PathFromRoot ==
    /\ PathFromRoot(inode_info, ROOT_INODE) = Some(EmptyStr)
    /\ \A ino \in DOMAIN inode_info \ {ROOT_INODE} :
          LET r == PathFromRoot(inode_info, ino)
          IN  /\ r.tag = "Some"
              /\ r.val # <<>>
              /\ r.val[Len(r.val)] = Slash
              /\ Split(r.val) = Append(ChainNames(inode_info, ino, Cardinality(DOMAIN inode_info)), EmptyStr)

\* The table holds an inode two levels below the root, with the path `a/b/`.
C13_Witness ==
    \E ino \in DOMAIN inode_info :
        /\ ino # ROOT_INODE
        /\ PathFromRoot(inode_info, ino) = Some(<<"a", "/", "b", "/">>)

\* The child a listing entry stands for under prefix p in directory d: an object
\* key less the leading p is a file of the listed size, a common prefix less the
\* leading p and the final '/' is a directory.
ExpectedChild(entry, p, d) ==
    IF entry.key # EmptyStr
    THEN [name |-> StripPrefix(entry.key, Len(p)), parent |-> d, kind |-> "RegularFile", size |-> entry.size]
    ELSE [name |-> Pop(StripPrefix(entry.prefix, Len(p))), parent |-> d, kind |-> "Directory", size |-> entry.size]

\* The handle an opendir has just replied with holds one child per entry of the
\* listing, in order, each with the record of the child the entry stands for.
SnapshotMatches(fh) ==
    LET g == dir_ghost[fh]
        ch == dir_handles[fh].children
    IN  /\ Len(ch) = Len(g.listing)
        /\ \A i \in DOMAIN ch :
              /\ ch[i] \in DOMAIN inode_info
              /\ inode_info[ch[i]] = ExpectedChild(g.listing[i], g.prefix, g.parent)
        /\ (g.listing = <<>>) => PastEnd(0, ch)

\* The directory's live entry set holds one name per entry of the listing, each
\* mapped to the child of the handle that the entry stands for.
EntrySetMatches(fh) ==
    LET g == dir_ghost[fh]
        ch == dir_handles[fh].children
        m == LiveMap(g.parent)
    IN  /\ Cardinality(DOMAIN m) = Len(g.listing)
        /\ Range(m) = Range(ch)
        /\ \A i \in DOMAIN ch :
              LET name == ExpectedChild(g.listing[i], g.prefix, g.parent).name
              IN  name \in DOMAIN m /\ m[name] = ch[i]

\* C14: when an opendir has replied with a handle, the handle's snapshot and the
\* directory's live entry set hold exactly one child per entry of the listing, with
\* the name, kind, size and parent the entry stands for; an empty listing gives an
\* empty child set and a handle that is exhausted at offset 0.
C14_OpendirChildren ==
    (reply.op = "opendir" /\ reply.status = "ok") =>
        /\ SnapshotMatches(reply.val)
        /\ EntrySetMatches(reply.val)

\* The inodes an enumeration has received so far, in the order received.
WalkInodes == [i \in DOMAIN walk.got |-> walk.got[i].ino]

\* C15: the kernel enumerates a handle from offset 0 and goes on, call after
\* call, from the next-entry offset of the last entry it received: what it has
\* received is at every moment the first children of the snapshot, in snapshot
\* order, none skipped and none repeated; when the enumeration ends it has
\* received every child; and the offsets it was given never decrease.
C15_EnumerationComplete ==
    (walk # NoWalk /\ walk.start = 0 /\ walk.fh \in DOMAIN dir_handles) =>
        LET ch == dir_handles[walk.fh].children
        IN  /\ \E k \in 0..Len(ch) : WalkInodes = SubSeq(ch, 1, k)
            /\ walk.done => WalkInodes = ch
            /\ \A i, j \in DOMAIN walk.got : i < j => walk.got[i].next <= walk.got[j].next

\* C16: a read waits only for reads of its own handle: when the first read of a
\* handle stands before inflight_reads.write(), every read that holds
\* inflight_reads.read(), and so keeps it waiting, is a read of the same handle.
C16_ReadsIndependent ==
    \A t, u \in Tasks :
        (/\ pc[t] = "rd_insert"
         /\ pc[u] \in {"rd_lock", "rd_stream"}
         /\ loc[t].fh \in FileHandles
         /\ loc[u].fh \in FileHandles) => loc[u].fh = loc[t].fh

\* C17: the inode table holds the root and every inode that was ever allocated,
\* so every inode named in an entry set, live or replaced, in the snapshot of a
\* directory handle, or held by a lookup or readdir under way, has its record,
\* and no lookup or readdir fails on the table.
C17_InodesNeverVanish ==
    /\ DOMAIN inode_info = ROOT_INODE..(next_inode - 1)
    /\ \A a \in DOMAIN arcs : Range(arcs[a]) \subseteq DOMAIN inode_info
    /\ \A fh \in DOMAIN dir_handles : Range(dir_handles[fh].children) \subseteq DOMAIN inode_info
    /\ \A t \in DirTasks :
          /\ pc[t] = "lk_info" => loc[t].ino \in DOMAIN inode_info
          /\ pc[t] = "rdd_info" => Range(loc[t].handle.children) \subseteq DOMAIN inode_info
    /\ reply.op \in {"lookup", "readdir"} => reply.status # "panic"

\* A lookup is about to read the record of an inode it found in an entry set
\* that has been replaced since, and the live entry set no longer names it.
C17_Witness ==
    \E t \in DirTasks :
        /\ pc[t] = "lk_info"
        /\ loc[t].ino # ROOT_INODE
        /\ dir_entries[loc[t].parent] # loc[t].entries
        /\ loc[t].ino \notin Range(LiveMap(loc[t].parent))

\* C18: the inode table is a tree rooted at inode 1: the parent named by every
\* record is in the table, every inode but the root was created after its parent,
\* and the chain of parents from every inode reaches the root, so there is no
\* cycle.
C18_InodeTree ==
    \A ino \in DOMAIN inode_info :
        /\ inode_info[ino].parent \in DOMAIN inode_info
        /\ ino # ROOT_INODE => inode_info[ino].parent < ino
        /\ Resolvable(ino)

\* A handle's snapshot holds an inode two levels below the root.
C18_Witness ==
    \E fh \in DOMAIN dir_handles, ino \in DOMAIN inode_info :
        /\ ino \in Range(dir_handles[fh].children)
        /\ inode_info[ino].parent # ROOT_INODE
        /\ inode_info[inode_info[ino].parent].parent = ROOT_INODE

\* What callback u can do next: the step at its program point, or, if it is
\* free, any lookup, getattr, readdir or opendir the kernel may send.
CanGoOn(u) ==
    /\ pc[u] = "lk_read" => ENABLED LookupRead(u)
    /\ pc[u] = "lk_info" => ENABLED LookupInfo(u)
    /\ pc[u] = "rdd_info" => ENABLED ReaddirInfo(u)
    /\ pc[u] = "od_list" => ENABLED OpendirListErr(u)
    /\ pc[u] = "od_lock" => ENABLED OpendirLock(u)
    /\ pc[u] = "od_loop" => ENABLED OpendirChild(u)
    /\ pc[u] = "od_publish" => ENABLED OpendirPublish(u)
    /\ pc[u] = "od_handle" => ENABLED OpendirHandle(u)
    /\ pc[u] = "od_insert" => ENABLED OpendirInsert(u)
    /\ pc[u] = "idle" =>
          /\ \A parent \in ParentArgs, name \in NameArgs : ENABLED LookupStart(u, parent, name)
          /\ \A ino \in ParentArgs : ENABLED Getattr(u, ino)
          /\ \A parent \in InodeArgs : ENABLED OpendirStart(u, parent)
          /\ \A fh \in HandleArgs, offset \in OffsetArgs : ENABLED ReaddirStart(u, ROOT_INODE, fh, offset)

\* C19: while the listing request of an opendir is outstanding, the opendir
\* holds no lock: the other callback can take every step of a lookup, getattr,
\* readdir or opendir, of the same or of another directory, up to its reply,
\* without the listing having returned.
C19_NoLockAcrossListing ==
    \A t, u \in DirTasks : (t # u /\ pc[t] = "od_list") => CanGoOn(u)

\* While one opendir waits for its listing, another opendir of the same
\* directory is in its loop with inode_info.write() held.
C19_Witness ==
    \E t, u \in DirTasks :
        /\ pc[t] = "od_list"
        /\ pc[u] = "od_loop"
        /\ loc[t].parent = loc[u].parent

\* C20: a read session exists only under a handle id that open has returned:
\* never under an id that was not issued or that opendir issued, so no id is both
\* a directory handle and the key of a session.
C20_SessionsOnlyForOpened ==
    /\ DOMAIN inflight_reads \subseteq FileHandles
    /\ DOMAIN inflight_reads \cap DOMAIN dir_handles = {}

====
